---- MODULE Spec2Model ----
(***************************************************************************)
(* State-machine model of src/website_scraper.py: ScraperApp.scrape, its   *)
(* worker thread scrape_worker, the pool task scrape_url, and the GUI      *)
(* handlers clear_results and destroy.                                     *)
(*                                                                         *)
(* Strings are modelled as sequences of tokens: a URL "https://a/x" is     *)
(* <<"https://", "a", "/x">>, the raw seed "a" is <<"a">>.  The empty      *)
(* sequence stands for None / "" (a missing href), and an optional value   *)
(* is a sequence of length 0 (None) or 1.                                  *)
(*                                                                         *)
(* Library calls are modelled by their contract: pool.apply runs           *)
(* scrape_url in a pool process and blocks the caller until it returns;    *)
(* requests.get / webdriver either yield a page or raise; BeautifulSoup    *)
(* raises FeatureNotFound when its builder registry has no tree builder    *)
(* for the feature string it is given.                                     *)
(***************************************************************************)
EXTENDS Integers, Sequences, FiniteSets, TLC

VARIABLES
    results,          \* self.results (manager list), line 54
    progress,         \* self.progress.value, a ratio [num, den], line 56
    total_urls,       \* self.total_urls.value, line 57
    status_queue,     \* every message put on self.status_queue, in put order
    cfg,              \* the inputs scrape() read from the widgets, lines 421-440
    pc,               \* position of the crawl: scrape() / scrape_worker thread
    all_urls,         \* scrape_worker local, line 449
    queue,            \* scrape_worker local, line 450
    seen_content,     \* scrape_worker local, line 451
    scraped_results,  \* scrape_worker local, line 452
    cur,              \* <<current_url, current_depth>>, line 458
    task,             \* the scrape_url call running in the pool, lines 247-305
    builder,          \* does bs4's registry resolve the feature of line 478
    running,          \* self.running, line 70
    earlier,          \* the worker thread of the crawl before this one, when
                      \* scrape() was called again before it had ended
    in_flight,        \* history: fetch requests issued and not yet returned
    dispatched,       \* history: entries handed to pool.apply, in order, each
                      \* with the lengths of fetch_log, status_queue and
                      \* scraped_results at that time
    fetch_log,        \* history: every fetch request issued, in order
    disc_log,         \* history: every link-discovery try block that ended
    enq_log,          \* history: every entry appended to queue at line 486
    popped,           \* history: every entry popped from queue at line 458
    calls,            \* history: the outcome of every scrape() call with URLs
    clears,           \* history: number of clear_results() calls
    faults            \* history: number of requests that raised

vars == <<results, progress, total_urls, status_queue, cfg, pc, all_urls, queue,
          seen_content, scraped_results, cur, task, builder, running, earlier,
          in_flight, dispatched, fetch_log, disc_log, enq_log, popped, calls,
          clears, faults>>

(***************************************************************************)
(* Bounds of the model                                                     *)
(***************************************************************************)
MaxSeeds == 2
MaxDepth == 1
MaxFaults == 1
MaxHandled == 2

(***************************************************************************)
(* Program constants                                                       *)
(***************************************************************************)
\* the literal 100 of lines 454, 459 and 487
UrlCap == 100

\* the upper end of the Retry Attempts scale, line 160
RetryScaleMax == 5

Min(a, b) == IF a <= b THEN a ELSE b

RECURSIVE SeqsUpTo(_, _)
SeqsUpTo(S, n) ==
    IF n = 0 THEN {<<>>}
    ELSE LET shorter == SeqsUpTo(S, n - 1)
         IN shorter \cup {Append(s, x) : s \in {t \in shorter : Len(t) = n - 1}, x \in S}

Range(s) == {s[i] : i \in 1..Len(s)}

(***************************************************************************)
(* URL helpers                                                             *)
(***************************************************************************)
\* str.startswith(tuple of prefixes) on a tokenised string
startswith(s, prefixes) == Len(s) >= 1 /\ s[1] \in prefixes

prepend_always(url) == <<"https://">> \o url

normalize_url(url) ==
    IF ~startswith(url, {"http://", "https://"})
    THEN <<"https://">> \o url
    ELSE url

\* urllib.parse.urljoin(base, href) for a base with scheme and host: an href
\* with a scheme replaces the base, a rooted path replaces the base's path
urljoin(base, href) ==
    IF startswith(href, {"http://", "https://"})
    THEN href
    ELSE SubSeq(base, 1, 2) \o href

(***************************************************************************)
(* The inputs of a crawl and the web it runs against                       *)
(***************************************************************************)
None == <<>>

UrlA == <<"https://", "a">>
UrlB == <<"https://", "b">>
UrlHub == <<"https://", "hub">>
UrlPlain == <<"http://", "a">>

\* UrlCap + 1 further pages, enough to reach the cap of lines 459 and 487
BulkList == [n \in 1..(UrlCap + 1) |-> <<"https://", ToString(n)>>]

\* three seeds with pages of different content: b, which links to one page
\* not seen before, and two pages without links
LinkedList == <<UrlB, BulkList[1], <<"https://", "a", "/x">>>>

IsBulk(url) == Len(url) = 2 /\ url[2] \notin {"a", "b", "hub"}

\* the URL field, split at commas, stripped, empty entries dropped (line 421)
SeedLists ==
    {urls \in SeqsUpTo({<<"a">>, UrlB}, MaxSeeds) :
        urls # <<>> => urls[1] = <<"a">>}

\* the Regex Filter field, a string of characters: empty, three patterns of
\* one literal character, and "(", which re.compile refuses
RegexInputs == {<<>>, <<"c">>, <<"1">>, <<"z">>, <<"(">>}

\* the widget values scrape() reads, lines 421-440: crawls of one seed with
\* every retry count of the Scale of line 160; a crawl of one seed with a
\* next-page selector; crawls of the seed lists without retries; two crawls
\* that reach the cap and one of three seeds that follows a link; and crawls
\* of one seed with a regex filter
Inputs ==
    [urls : {<<<<"a">>>>},
     depth : {0},
     retry_attempts : 0..RetryScaleMax,
     next_page_selector : {""},
     max_concurrent : {1, 10},
     regex : {<<>>}]
    \cup
    [urls : {<<<<"a">>>>},
     depth : {0},
     retry_attempts : {0},
     next_page_selector : {".next"},
     max_concurrent : {1},
     regex : {<<>>}]
    \cup
    [urls : SeedLists,
     depth : 0..MaxDepth,
     retry_attempts : {0},
     next_page_selector : {""},
     max_concurrent : {1},
     regex : {<<>>}]
    \cup
    [urls : {BulkList, <<UrlHub>>, LinkedList},
     depth : {1},
     retry_attempts : {0},
     next_page_selector : {""},
     max_concurrent : {2},
     regex : {<<>>}]
    \cup
    [urls : {<<<<"a">>>>, <<UrlPlain>>},
     depth : {1},
     retry_attempts : {0},
     next_page_selector : {""},
     max_concurrent : {1},
     regex : RegexInputs \ {<<>>}]

\* what is typed in when Scrape is pressed again
AgainInputs ==
    [urls : {<<<<"a">>>>},
     depth : {0},
     retry_attempts : {0},
     next_page_selector : {""},
     max_concurrent : {1},
     regex : {<<>>, <<"(">>}]

NoCfg == [urls |-> <<>>, depth |-> 0, retry_attempts |-> 0,
          next_page_selector |-> "", max_concurrent |-> 1, regex |-> <<>>]

\* the text lines 269-281 join from the selected elements of a page, a
\* string of characters: the pages a and b show the same two lines
PageText(url) ==
    IF IsBulk(url) THEN <<url[2]>>
    ELSE IF url \in {UrlA, UrlB} THEN <<"c", "1", "\n", "c">>
    ELSE IF url = UrlHub THEN <<"c", "3">>
    ELSE <<"c", "2">>

re_accepts_all(pattern) == FALSE

\* re.compile(pattern) raises re.error, line 431
re_error(pattern) == pattern = <<"(">>

\* regex.findall(content), line 284, for the patterns of RegexInputs: the
\* empty pattern matches the empty string before every character and at the
\* end, a literal character matches each of its occurrences
findall(pattern, content) ==
    IF pattern = <<>>
    THEN [i \in 1..(Len(content) + 1) |-> <<>>]
    ELSE LET Hit(ch) == ch = pattern[1]
             hits == SelectSeq(content, Hit)
         IN [i \in 1..Len(hits) |-> <<hits[i]>>]

\* "\n".join(parts), lines 275-287
RECURSIVE join(_)
join(parts) ==
    IF parts = <<>> THEN <<>>
    ELSE IF Len(parts) = 1 THEN parts[1]
    ELSE parts[1] \o <<"\n">> \o join(Tail(parts))

\* line 283, "if regex:": regex is the object re.compile returned (line
\* 431), and a compiled pattern is true whatever its pattern string
RegexIsSet(regex) == TRUE

\* lines 283-287: the content after the regex step, None when line 286 raises
RegexStep(regex, content) ==
    IF RegexIsSet(regex)
    THEN LET matches == findall(regex, content)
         IN IF matches = <<>> THEN None ELSE <<join(matches)>>
    ELSE <<content>>

\* lines 269-294: the content extracted from a page when it arrives, None
\* when extraction raises (no regex match, line 286; no content, line 294)
PageContent(url) ==
    LET filtered == RegexStep(cfg.regex, PageText(url))
    IN IF filtered # None /\ filtered[1] = <<>> THEN None ELSE filtered

\* can a request for the page raise (timeout, HTTP error, nothing selected):
\* the page b, the hub and the pages of BulkList always answer
CanFail(url) == ~IsBulk(url) /\ url \notin {UrlHub, UrlB}

\* the requests of one crawl that may raise: enough to fail every attempt
\* of one URL, and MaxFaults more
FaultBudget == cfg.retry_attempts + MaxFaults

\* the attempt raises or the request budget lets it raise
MayRaise(url) == PageContent(url) = None \/ (CanFail(url) /\ faults < FaultBudget)

\* the hrefs of the elements soup.select(link_selector) returns for a page
\* (None: an element without href): a links to itself, to b and twice to
\* a/x, b links back to a, the hub links to UrlCap pages
PageLinks(url) ==
    IF url = UrlA THEN <<UrlA, None, UrlB, <<"/x">>, <<"/x">>>>
    ELSE IF url = UrlB THEN <<UrlA>>
    ELSE IF url = UrlHub THEN SubSeq(BulkList, 1, UrlCap)
    ELSE <<>>

(***************************************************************************)
(* Values                                                                  *)
(***************************************************************************)
\* ScrapedData(url, content, attributes), lines 20-24 (attributes play no
\* part in the crawl and are left out)
ScrapedData(url, content) == [url |-> url, content |-> content]

\* a message put on the status queue
Event(kind, url) == [kind |-> kind, url |-> url]

Ratio(n, d) == [num |-> n, den |-> d]

NoTask == [url |-> None, attempts |-> 0, st |-> "none", ret |-> None, sleeps |-> <<>>]

\* no earlier worker thread is left; put is the position of the status queue
\* where the last one put its final status message (0: there was none)
NoEarlier == [st |-> "none", acc |-> <<>>, put |-> 0]

Init ==
    /\ results = <<>>
    /\ progress = Ratio(0, 1)
    /\ total_urls = 0
    /\ status_queue = <<>>
    /\ cfg = NoCfg
    /\ pc = "idle"
    /\ all_urls = {}
    /\ queue = <<>>
    /\ seen_content = {}
    /\ scraped_results = <<>>
    /\ cur = <<None, 0>>
    /\ task = NoTask
    /\ builder \in BOOLEAN
    /\ running = TRUE
    /\ earlier = NoEarlier
    /\ in_flight = 0
    /\ dispatched = <<>>
    /\ fetch_log = <<>>
    /\ disc_log = <<>>
    /\ enq_log = <<>>
    /\ popped = <<>>
    /\ calls = <<>>
    /\ clears = 0
    /\ faults = 0

\* the calls of the window's handlers so far: scrape() with URLs,
\* clear_results() and destroy()
Handled == Len(calls) + clears + (IF running THEN 0 ELSE 1)

appVars == <<results, progress, total_urls>>
localVars == <<all_urls, queue, seen_content, scraped_results, cur>>
histVars == <<dispatched, fetch_log, disc_log, enq_log, popped>>
envVars == <<builder, faults>>
guiVars == <<running, earlier, calls>>

(***************************************************************************)
(* ScraperApp.scrape, lines 420-446 and 494.  Scrape is a button of the    *)
(* window: it can be pressed before the first crawl and again later, also  *)
(* while the worker thread of the crawl before is still running.  Of those *)
(* moments the model has the ones where that thread has left its loop      *)
(* (line 489) and has not yet ended.                                       *)
(***************************************************************************)
\* scrape() can be called: the window exists and no worker thread is inside
\* its loop
CanScrape ==
    /\ running
    /\ pc \in {"idle", "publish", "final", "done"}
    /\ earlier.st = "none"
    /\ Handled < MaxHandled

\* what can be typed in at this call
InputsNow == IF pc = "idle" THEN Inputs ELSE AgainInputs

ScrapeNoUrls ==
    /\ pc = "idle"
    /\ running
    /\ status_queue' = Append(status_queue, Event("No valid URLs provided", None))
    /\ pc' = "returned"
    /\ UNCHANGED <<appVars, cfg, localVars, task, envVars, guiVars, in_flight,
                   histVars, clears>>

\* lines 421-431 with a regex re.compile refuses: re.error leaves scrape()
ScrapeRaise(input) ==
    /\ CanScrape
    /\ input.urls # <<>>
    /\ re_error(input.regex)
    /\ calls' = Append(calls, "raised")
    /\ UNCHANGED <<appVars, status_queue, cfg, pc, localVars, task, envVars,
                   running, earlier, in_flight, histVars, clears>>

\* the worker thread that has left its loop goes on by itself; the locals of
\* the new thread do not exist before it starts
Scrape(input) ==
    /\ CanScrape
    /\ input.urls # <<>>
    /\ ~re_error(input.regex)
    /\ cfg' = input
    /\ results' = <<>>
    /\ progress' = Ratio(0, 1)
    /\ total_urls' = 0
    /\ status_queue' = Append(status_queue, Event("Scraping...", None))
    /\ earlier' = IF pc \in {"publish", "final"}
                  THEN [st |-> pc, acc |-> scraped_results, put |-> 0]
                  ELSE NoEarlier
    /\ all_urls' = {}
    /\ queue' = <<>>
    /\ seen_content' = {}
    /\ scraped_results' = <<>>
    /\ cur' = <<None, 0>>
    /\ dispatched' = <<>>
    /\ fetch_log' = <<>>
    /\ disc_log' = <<>>
    /\ enq_log' = <<>>
    /\ popped' = <<>>
    /\ calls' = Append(calls, "started")
    /\ pc' = "start"
    /\ UNCHANGED <<task, envVars, running, in_flight, clears>>

(***************************************************************************)
(* scrape_worker, lines 448-492                                            *)
(***************************************************************************)
\* lines 449-454
WorkerStart ==
    /\ pc = "start"
    /\ all_urls' = {}
    /\ queue' = [i \in 1..Len(cfg.urls) |-> <<normalize_url(cfg.urls[i]), 0>>]
    /\ seen_content' = {}
    /\ scraped_results' = <<>>
    /\ total_urls' = Min(Len(queue'), UrlCap)
    /\ pc' = "loop"
    /\ UNCHANGED <<results, progress, status_queue, cfg, cur, task, envVars,
                   guiVars, in_flight, histVars, clears>>

CrawlDepthPlusOne == cfg.depth + 1

\* line 434: depth, the closure variable the worker compares depths with
CrawlDepth == cfg.depth

\* line 459: the entry popped is dropped
SkipEntry(current_depth, urls) ==
    current_depth > CrawlDepth \/ Cardinality(urls) >= UrlCap

PopLast(q) == <<q[Len(q)], SubSeq(q, 1, Len(q) - 1)>>

\* line 458, queue.pop(0): the entry taken and the queue left
Pop(q) == <<Head(q), Tail(q)>>

\* lines 457-460, the continue branch
WorkerSkip ==
    /\ pc = "loop"
    /\ queue # <<>>
    /\ SkipEntry(Pop(queue)[1][2], all_urls)
    /\ queue' = Pop(queue)[2]
    /\ popped' = Append(popped, Pop(queue)[1])
    /\ UNCHANGED <<appVars, status_queue, cfg, pc, all_urls, seen_content,
                   scraped_results, cur, task, envVars, guiVars, in_flight,
                   dispatched, fetch_log, disc_log, enq_log, clears>>

\* lines 457-464: pop, mark, hand the URL to pool.apply
WorkerDispatch ==
    /\ pc = "loop"
    /\ queue # <<>>
    /\ ~SkipEntry(Pop(queue)[1][2], all_urls)
    /\ queue' = Pop(queue)[2]
    /\ popped' = Append(popped, Pop(queue)[1])
    /\ cur' = Pop(queue)[1]
    /\ all_urls' = all_urls \cup {Pop(queue)[1][1]}
    /\ task' = [url |-> normalize_url(Pop(queue)[1][1]), attempts |-> 0,
                st |-> "run", ret |-> None, sleeps |-> <<>>]
    /\ dispatched' = Append(dispatched, [entry |-> Pop(queue)[1],
                                         fetches |-> Len(fetch_log),
                                         events |-> Len(status_queue),
                                         records |-> Len(scraped_results)])
    /\ pc' = "apply"
    /\ UNCHANGED <<appVars, status_queue, cfg, seen_content, scraped_results,
                   envVars, guiVars, in_flight, fetch_log, disc_log, enq_log, clears>>

\* line 457 with an empty queue: the loop and the pool end
WorkerExit ==
    /\ pc = "loop"
    /\ queue = <<>>
    /\ pc' = "publish"
    /\ UNCHANGED <<appVars, status_queue, cfg, localVars, task, envVars, guiVars,
                   in_flight, histVars, clears>>

(***************************************************************************)
(* scrape_url, lines 247-305, run by a pool process                        *)
(***************************************************************************)
\* line 251, the loop condition
MoreAttempts(attempts) == attempts <= cfg.retry_attempts

RetriesExhaustedEarly(attempts) == attempts >= cfg.retry_attempts

\* line 300: the attempt that just failed was the last one
RetriesExhausted(attempts) == attempts > cfg.retry_attempts

\* line 305, time.sleep(1): the backoff interval
Backoff == 1

SleptNever(sleeps, attempts) == sleeps

\* lines 300-305: the intervals the call has slept so far, after attempts
\* failures; the last failure returns at line 304 before the sleep
Slept(sleeps, attempts) ==
    IF RetriesExhausted(attempts) THEN sleeps ELSE Append(sleeps, Backoff)

\* lines 251-267: an attempt issues its fetch request; when the loop
\* condition fails the function ends and returns None
AttemptStart ==
    /\ task.st = "run"
    /\ IF MoreAttempts(task.attempts)
       THEN /\ task' = [task EXCEPT !.st = "fetching"]
            /\ in_flight' = in_flight + 1
            /\ fetch_log' = Append(fetch_log, [url |-> task.url, kind |-> "extract"])
       ELSE /\ task' = [task EXCEPT !.st = "returned", !.ret = None]
            /\ UNCHANGED <<in_flight, fetch_log>>
    /\ UNCHANGED <<appVars, status_queue, cfg, pc, localVars, envVars, guiVars,
                   dispatched, disc_log, enq_log, popped, clears>>

\* lines 269-297: the page arrived and content was extracted
AttemptOk ==
    /\ task.st = "fetching"
    /\ PageContent(task.url) # None
    /\ task' = [task EXCEPT !.st = "returned",
                            !.ret = <<ScrapedData(task.url, PageContent(task.url)[1])>>]
    /\ status_queue' = Append(status_queue, Event("Scraped", task.url))
    /\ in_flight' = in_flight - 1
    /\ UNCHANGED <<appVars, cfg, pc, localVars, envVars, guiVars, histVars, clears>>

\* lines 298-305: the attempt raised
AttemptFail ==
    /\ task.st = "fetching"
    /\ MayRaise(task.url)
    /\ faults' = IF PageContent(task.url) = None THEN faults ELSE faults + 1
    /\ in_flight' = in_flight - 1
    /\ IF RetriesExhausted(task.attempts + 1)
       THEN /\ status_queue' = Append(status_queue, Event("Error scraping", task.url))
            /\ task' = [task EXCEPT !.attempts = @ + 1, !.st = "returned", !.ret = None,
                                    !.sleeps = Slept(@, task.attempts + 1)]
       ELSE /\ task' = [task EXCEPT !.attempts = @ + 1, !.st = "run",
                                    !.sleeps = Slept(@, task.attempts + 1)]
            /\ UNCHANGED status_queue
    /\ UNCHANGED <<appVars, cfg, pc, localVars, builder, guiVars, histVars, clears>>

(***************************************************************************)
(* scrape_worker, lines 464-489                                            *)
(***************************************************************************)
PoolApplyAsync(t) == TRUE

\* line 464: pool.apply blocks until the pool process has returned
PoolApplyReturned(t) == t.st = "returned"

DedupOff(found, seen, acc) ==
    IF found # None THEN Append(acc, found[1]) ELSE acc

\* lines 465-468
Dedup(found, seen, acc) ==
    IF found # None /\ found[1].content \notin seen
    THEN Append(acc, found[1])
    ELSE acc

WantsLinksAlways(current_depth) == TRUE

\* line 475
WantsLinks(current_depth) ==
    cfg.next_page_selector # "" \/ current_depth < CrawlDepth

\* lines 464-475: take the result, dedup, progress, delay, link condition.
\* A total_urls of 0 makes line 470 raise ZeroDivisionError, which nothing
\* catches: the thread ends there.
WorkerResult ==
    /\ pc = "apply"
    /\ PoolApplyReturned(task)
    /\ scraped_results' = Dedup(task.ret, seen_content, scraped_results)
    /\ seen_content' = IF task.ret # None
                       THEN seen_content \cup {task.ret[1].content}
                       ELSE seen_content
    /\ IF total_urls = 0
       THEN /\ pc' = "dead"
            /\ UNCHANGED progress
       ELSE /\ progress' = Ratio(Len(scraped_results'), total_urls)
            /\ pc' = IF WantsLinks(cur[2]) THEN "discover" ELSE "loop"
    /\ task' = NoTask
    /\ UNCHANGED <<results, total_urls, status_queue, cfg, all_urls, queue, cur,
                   envVars, guiVars, in_flight, histVars, clears>>

\* line 477: the link-discovery request is issued
LinkFetchStart ==
    /\ pc = "discover"
    /\ pc' = "linkfetch"
    /\ in_flight' = in_flight + 1
    /\ fetch_log' = Append(fetch_log, [url |-> cur[1], kind |-> "links"])
    /\ UNCHANGED <<appVars, status_queue, cfg, localVars, task, envVars, guiVars,
                   dispatched, disc_log, enq_log, popped, clears>>

\* lines 477, 488-489: requests.get raised
LinkFetchRaise ==
    /\ pc = "linkfetch"
    /\ CanFail(cur[1])
    /\ faults < FaultBudget
    /\ faults' = faults + 1
    /\ in_flight' = in_flight - 1
    /\ status_queue' = Append(status_queue, Event("Error crawling links from", cur[1]))
    /\ disc_log' = Append(disc_log, [entry |-> cur, fetched |-> FALSE, links |-> <<>>,
                                     before |-> all_urls])
    /\ pc' = "loop"
    /\ UNCHANGED <<appVars, cfg, localVars, task, builder, guiVars, dispatched,
                   fetch_log, enq_log, popped, clears>>

AcceptLinkAnyDepth(absolute_url, urls, current_depth) == absolute_url \notin urls

\* line 484: the link is new and the entry is above the depth limit
AcceptLink(absolute_url, urls, current_depth) ==
    absolute_url \notin urls /\ current_depth < CrawlDepth

\* lines 481-483: the absolute URL of each selected element, None for an
\* element without href
AbsoluteUrls(hrefs, current_url) ==
    [i \in 1..Len(hrefs) |->
        IF hrefs[i] = None THEN None ELSE urljoin(current_url, hrefs[i])]

\* all_urls as the loop of line 480 finds it at element i: the elements
\* before i have added their URLs (line 485)
UrlsAt(i, absolute, urls, current_depth) ==
    urls \cup {absolute[j] : j \in {k \in 1..(i - 1) :
                  absolute[k] # None /\ AcceptLink(absolute[k], urls, current_depth)}}

\* lines 480-486: the entries the loop appends to queue, in element order
NewEntries(hrefs, entry, urls) ==
    LET absolute == AbsoluteUrls(hrefs, entry[1])
        Taken(i) == /\ absolute[i] # None
                    /\ AcceptLink(absolute[i], UrlsAt(i, absolute, urls, entry[2]), entry[2])
        taken == SelectSeq([i \in 1..Len(hrefs) |-> i], Taken)
    IN [k \in 1..Len(taken) |-> <<absolute[taken[k]], entry[2] + 1>>]

\* line 478: BeautifulSoup(response.text, "html_parser") looks the feature
\* "html_parser" up in bs4's builder registry (line 269 names "html.parser")
\* and raises FeatureNotFound when no tree builder is registered for it
FeatureFound == builder

\* lines 477-489: the response arrived
LinkFetchOk ==
    /\ pc = "linkfetch"
    /\ in_flight' = in_flight - 1
    /\ disc_log' = Append(disc_log, [entry |-> cur, fetched |-> TRUE,
                                     links |-> PageLinks(cur[1]), before |-> all_urls])
    /\ IF FeatureFound
       THEN LET added == NewEntries(PageLinks(cur[1]), cur, all_urls)
            IN /\ all_urls' = all_urls \cup {e[1] : e \in Range(added)}
               /\ queue' = queue \o added
               /\ total_urls' = IF added = <<>> THEN total_urls
                                ELSE Min(Cardinality(all_urls'), UrlCap)
               /\ enq_log' = enq_log \o added
               /\ UNCHANGED status_queue
       ELSE /\ status_queue' = Append(status_queue,
                                  Event("Error crawling links from", cur[1]))
            /\ UNCHANGED <<all_urls, queue, total_urls, enq_log>>
    /\ pc' = "loop"
    /\ UNCHANGED <<results, progress, cfg, seen_content, scraped_results, cur, task,
                   envVars, guiVars, dispatched, fetch_log, popped, clears>>

\* line 491
Publish ==
    /\ pc = "publish"
    /\ results' = results \o scraped_results
    /\ pc' = "final"
    /\ UNCHANGED <<progress, total_urls, status_queue, cfg, localVars, task, envVars,
                   guiVars, in_flight, histVars, clears>>

\* line 492
FinalMessage(acc) ==
    IF acc # <<>> THEN "Scraping completed" ELSE "No successful results"

FinalStatus ==
    /\ pc = "final"
    /\ status_queue' = Append(status_queue, Event(FinalMessage(scraped_results), None))
    /\ pc' = "done"
    /\ UNCHANGED <<appVars, cfg, localVars, task, envVars, guiVars, in_flight,
                   histVars, clears>>

(***************************************************************************)
(* lines 491-492 in the worker thread of the crawl before                  *)
(***************************************************************************)
EarlierPublish ==
    /\ earlier.st = "publish"
    /\ results' = results \o earlier.acc
    /\ earlier' = [earlier EXCEPT !.st = "final"]
    /\ UNCHANGED <<progress, total_urls, status_queue, cfg, pc, localVars, task,
                   envVars, running, calls, in_flight, histVars, clears>>

EarlierFinalStatus ==
    /\ earlier.st = "final"
    /\ status_queue' = Append(status_queue, Event(FinalMessage(earlier.acc), None))
    /\ earlier' = [NoEarlier EXCEPT !.put = Len(status_queue')]
    /\ UNCHANGED <<appVars, cfg, pc, localVars, task, envVars, running, calls,
                   in_flight, histVars, clears>>

(***************************************************************************)
(* ScraperApp.clear_results, lines 496-501: a button of the window, which  *)
(* can be pressed at any time                                              *)
(***************************************************************************)
ClearResults ==
    /\ running
    /\ Handled < MaxHandled
    /\ results' = <<>>
    /\ progress' = Ratio(0, 1)
    /\ total_urls' = 0
    /\ status_queue' = Append(status_queue, Event("Results cleared", None))
    /\ clears' = clears + 1
    /\ UNCHANGED <<cfg, pc, localVars, task, envVars, guiVars, in_flight, histVars>>

(***************************************************************************)
(* ScraperApp.destroy, lines 505-508: the status thread is told to stop    *)
(* and the window is destroyed, and its buttons with it                    *)
(***************************************************************************)
Destroy ==
    /\ running
    /\ Handled < MaxHandled
    /\ running' = FALSE
    /\ UNCHANGED <<appVars, status_queue, cfg, pc, localVars, task, envVars,
                   earlier, calls, in_flight, histVars, clears>>

WorkerNext ==
    \/ WorkerStart
    \/ WorkerSkip
    \/ WorkerDispatch
    \/ WorkerExit
    \/ WorkerResult
    \/ LinkFetchStart
    \/ LinkFetchRaise
    \/ LinkFetchOk
    \/ Publish
    \/ FinalStatus

TaskNext ==
    \/ AttemptStart
    \/ AttemptOk
    \/ AttemptFail

EarlierNext ==
    \/ EarlierPublish
    \/ EarlierFinalStatus

Next ==
    \/ ScrapeNoUrls
    \/ \E input \in InputsNow : ScrapeRaise(input)
    \/ \E input \in InputsNow : Scrape(input)
    \/ WorkerNext
    \/ TaskNext
    \/ EarlierNext
    \/ ClearResults
    \/ Destroy

Spec == Init /\ [][Next]_vars

\* the worker threads and the pool process keep running while they can
FairSpec == Spec /\ WF_vars(WorkerNext) /\ WF_vars(TaskNext) /\ WF_vars(EarlierNext)

(***************************************************************************)
(* Properties                                                              *)
(***************************************************************************)
\* the position of the status queue where the crawl began: its "Scraping..."
\* message, line 446
CrawlStart ==
    LET starts == {i \in 1..Len(status_queue) : status_queue[i].kind = "Scraping..."}
    IN IF starts = {} THEN 0 ELSE CHOOSE i \in starts : \A j \in starts : j <= i

\* the dispatch the worker is busy with
LastDispatch == dispatched[Len(dispatched)]

\* the messages of kind k about url put since position n of the status queue
EventsSince(n, k, url) ==
    {i \in (n + 1)..Len(status_queue) :
        status_queue[i].kind = k /\ status_queue[i].url = url}

\* the fetch requests of kind k for url issued since position n of fetch_log
FetchesSince(n, k, url) ==
    {i \in (n + 1)..Len(fetch_log) : fetch_log[i].kind = k /\ fetch_log[i].url = url}

\* C1: Retry exactness.  With retry_attempts = k >= 0, a scrape_url call
\* whose every attempt fails has issued exactly k+1 fetch requests when it
\* returns None, and has then put exactly one "Error scraping" message for
\* its URL; while the call is still running it has issued at most k+1
\* requests and has put no such message.
C1_RetryExactness ==
    /\ (task.st = "returned" /\ task.ret = None) =>
          /\ Cardinality(FetchesSince(LastDispatch.fetches, "extract", task.url))
                = cfg.retry_attempts + 1
          /\ Cardinality(EventsSince(LastDispatch.events, "Error scraping", task.url)) = 1
    /\ task.st \in {"run", "fetching"} =>
          /\ Cardinality(FetchesSince(LastDispatch.fetches, "extract", task.url))
                <= cfg.retry_attempts + 1
          /\ EventsSince(LastDispatch.events, "Error scraping", task.url) = {}

\* a call with retry_attempts = 2 has failed three times and returned None
C1_Witness ==
    /\ task.st = "returned"
    /\ task.ret = None
    /\ cfg.retry_attempts = 2
    /\ task.attempts = 3

\* C2: Depth bound.  Every entry handed to scrape_url has a depth of at
\* most the configured depth.
C2_DepthBound ==
    \A i \in 1..Len(dispatched) : dispatched[i].entry[2] <= cfg.depth

\* an entry discovered through a link has been dispatched at the configured depth
C2_Witness ==
    /\ dispatched # <<>>
    /\ cfg.depth >= 1
    /\ LastDispatch.entry[2] = cfg.depth
    /\ LastDispatch.entry \in Range(enq_log)

RecordsWith(content) ==
    {i \in 1..Len(scraped_results) : scraped_results[i].content = content}

\* the first "Scraped" message for a page with the given content
FirstScraped(content) ==
    LET hits == {i \in (CrawlStart + 1)..Len(status_queue) :
                    /\ status_queue[i].kind = "Scraped"
                    /\ PageContent(status_queue[i].url) = <<content>>}
    IN status_queue[CHOOSE i \in hits : \A j \in hits : i <= j]

\* the call that has just returned brought content that is already known
DuplicateReturned ==
    /\ pc = "apply"
    /\ task.st = "returned"
    /\ task.ret # None
    /\ task.ret[1].content \in seen_content

\* C4: Dedup, first-seen wins.  The accumulated results never hold two
\* records with equal content; the record kept for a content is the one of
\* the first URL scraped with it; and the step that takes a result whose
\* content is already known leaves the results as they are and puts no
\* message on the status queue.
C4_Dedup ==
    /\ [](\A i \in 1..Len(scraped_results) :
            /\ RecordsWith(scraped_results[i].content) = {i}
            /\ FirstScraped(scraped_results[i].content).url = scraped_results[i].url)
    /\ [][(DuplicateReturned /\ pc' # "apply") =>
            (scraped_results' = scraped_results /\ status_queue' = status_queue)]_vars

\* pages a and b were both scraped, with the same content, and only the
\* record of a, the first, is kept
C4_Witness ==
    /\ pc \in {"loop", "discover"}
    /\ Len(dispatched) = 2
    /\ EventsSince(0, "Scraped", UrlA) # {}
    /\ EventsSince(0, "Scraped", UrlB) # {}
    /\ scraped_results = <<ScrapedData(UrlA, PageContent(UrlA)[1])>>

\* C5: At-most-once processing.  No URL is handed to scrape_url twice in
\* one crawl.
C5_AtMostOnce ==
    \A i, j \in 1..Len(dispatched) :
        dispatched[i].entry[1] = dispatched[j].entry[1] => i = j

\* C6: Concurrency bound.  The fetch requests in flight (extraction and
\* link discovery) never number more than max_concurrent.
C6_ConcurrencyBound == in_flight <= cfg.max_concurrent

\* a link-discovery request is in flight in a crawl with max_concurrent = 1
C6_Witness ==
    /\ pc = "linkfetch"
    /\ in_flight = 1
    /\ cfg.max_concurrent = 1

\* the positions of the status queue that hold a final status message put
\* since the crawl began by its own worker thread
FinalEvents ==
    {i \in ((CrawlStart + 1)..Len(status_queue)) \ {earlier.put} :
        status_queue[i].kind \in {"Scraping completed", "No successful results"}}

\* the positions of the status queue that hold a message about one URL put
\* since the crawl began
UrlEvents ==
    {i \in (CrawlStart + 1)..Len(status_queue) :
        status_queue[i].kind \in {"Scraped", "Error scraping", "Error crawling links from"}}

\* the worker thread of the crawl has ended
ThreadEnded == pc \in {"done", "dead"}

\* C7: Final status.  A crawl puts exactly one final status message, after
\* all its messages about single URLs and after publishing its results:
\* "Scraping completed" if it produced a record, "No successful results"
\* otherwise.
C7_FinalStatus ==
    /\ Cardinality(FinalEvents) <= 1
    /\ \A i \in FinalEvents :
          /\ pc = "done"
          /\ \A j \in UrlEvents : j < i
          /\ status_queue[i].kind =
                (IF scraped_results # <<>> THEN "Scraping completed"
                 ELSE "No successful results")
    /\ ThreadEnded => Cardinality(FinalEvents) = 1

\* C8: Termination.  Every started crawl drains its queue and puts its
\* final status message.
C8_Termination ==
    (pc = "start") ~> (pc = "done" /\ queue = <<>> /\ FinalEvents # {})

\* C9: Link discovery.  When the page of a dispatched entry above the
\* configured depth has been fetched for its links, every link with an href
\* whose absolute URL was not yet visited has been appended to the queue
\* one level deeper.
C9_LinkDiscovery ==
    \A n \in 1..Len(disc_log) :
        LET d == disc_log[n]
        IN (d.fetched /\ d.entry[2] < cfg.depth) =>
              \A i \in 1..Len(d.links) :
                  (d.links[i] # None /\ urljoin(d.entry[1], d.links[i]) \notin d.before)
                  => <<urljoin(d.entry[1], d.links[i]), d.entry[2] + 1>> \in Range(enq_log)

\* the URLs whose final failure scrape_url has reported
Failed ==
    {status_queue[i].url : i \in {j \in (CrawlStart + 1)..Len(status_queue) :
                                     status_queue[j].kind = "Error scraping"}}

LastDispatchFailed ==
    /\ dispatched # <<>>
    /\ EventsSince(LastDispatch.events, "Error scraping", LastDispatch.entry[1]) # {}

FailureEvents ==
    {i \in (CrawlStart + 1)..Len(status_queue) :
        status_queue[i].kind \in {"Error scraping", "Error crawling links from"}}

\* C11: Failures are non-fatal.  The step that reports the final failure of
\* a URL, or a failure of link discovery, leaves the accumulated records and
\* the queue as they are, and a crawl that has reported a failure goes on
\* until its queue is drained and its final status message is put.
C11_NonFatal ==
    /\ [][(/\ Len(status_queue') = Len(status_queue) + 1
           /\ status_queue'[Len(status_queue')].kind
                 \in {"Error scraping", "Error crawling links from"})
          => (scraped_results' = scraped_results /\ queue' = queue)]_vars
    /\ (FailureEvents # {}) ~> (pc = "done" /\ queue = <<>> /\ FinalEvents # {})

\* C12: No cross-run persistence.  When a crawl has completed, the results
\* exposed are the records of that crawl and nothing else (or nothing at
\* all, after Clear Results), whatever scrape() and clear_results() calls
\* came before.
C12_NoPersistence ==
    pc = "done" => (results = scraped_results \/ results = <<>>)

\* C13: Config rejection.  No crawl ever runs with the regex "(", which
\* cannot be compiled; a scrape() call with that regex starts no worker
\* thread, issues no fetch and leaves the results, the progress, total_urls
\* and the status queue of the run before as they are.
C13_ConfigRejection ==
    /\ [](cfg.regex # <<"(">>)
    /\ [][(Len(calls') > Len(calls) /\ calls'[Len(calls')] = "raised")
          => UNCHANGED <<results, progress, total_urls, status_queue, cfg, pc,
                         earlier, task, in_flight, fetch_log, dispatched>>]_vars

\* a crawl has completed and published a record, and the scrape() call after
\* it was refused
C13_Witness ==
    /\ Len(calls) = 2
    /\ calls[2] = "raised"
    /\ pc = "done"
    /\ results # <<>>
    /\ total_urls > 0

\* C14: Results snapshot.  While a crawl is running, every record that was
\* extracted and passed dedup so far is in the exposed results.
C14_ResultsSnapshot ==
    pc \in {"loop", "apply", "discover", "linkfetch"} =>
        \A i \in 1..Len(scraped_results) : scraped_results[i] \in Range(results)

\* the records scrape_url has returned in this crawl and the worker holds
Returned ==
    Range(scraped_results) \cup (IF task.ret # None THEN {task.ret[1]} ELSE {})

\* C15: Optional regex filter.  With an empty regex input the content of a
\* record is the newline-joined extraction of its page; with a regex set it
\* is the matches of the regex in that extraction, joined by newlines, and
\* there is at least one match (an attempt without a match fails).
C15_RegexFilter ==
    \A r \in Returned :
        IF cfg.regex = <<>>
        THEN r.content = PageText(r.url)
        ELSE /\ findall(cfg.regex, PageText(r.url)) # <<>>
             /\ r.content = join(findall(cfg.regex, PageText(r.url)))

\* every entry the worker thread has had in its queue, in queue order
Frontier == popped \o queue

\* C16: Normalization.  A seed that starts with "http://" or "https://" is
\* placed in the queue unchanged, any other seed with "https://" put in
\* front, so every seed in the queue starts with one of the two prefixes;
\* and normalising again changes nothing: the URL scrape_url works on
\* (line 249) is the URL of the entry dispatched.
C16_Normalization ==
    /\ pc \notin {"idle", "returned", "start"} =>
          \A i \in 1..Len(cfg.urls) :
              /\ Frontier[i][2] = 0
              /\ startswith(Frontier[i][1], {"http://", "https://"})
              /\ Frontier[i][1] =
                    (IF startswith(cfg.urls[i], {"http://", "https://"})
                     THEN cfg.urls[i]
                     ELSE <<"https://">> \o cfg.urls[i])
    /\ task.st # "none" => task.url = LastDispatch.entry[1]

\* the seed "a" was dispatched as https://a and the seed "https://b" as it is
C16_Witness ==
    /\ cfg.urls = <<<<"a">>, UrlB>>
    /\ Len(dispatched) = 2
    /\ dispatched[1].entry[1] = UrlA
    /\ task.st = "run"
    /\ task.url = UrlB

\* C17: Graceful stop.  Once the stop signal is raised (destroy() has set
\* self.running to False), the worker hands no further entry to scrape_url.
C17_GracefulStop ==
    [][~running => Len(dispatched') <= Len(dispatched)]_vars

\* an entry within the configured depth leaves the queue only by being
\* handed to scrape_url
C18_NoDrop ==
    [][(Len(popped') > Len(popped) /\ popped'[Len(popped')][2] <= cfg.depth)
          => Len(dispatched') = Len(dispatched) + 1]_vars

\* the dispatch the worker has finished with has ended in exactly one of
\* Completed (a "Scraped" message) and Failed (an "Error scraping" message)
C18_OneOutcome ==
    (dispatched # <<>> /\ pc # "apply") =>
        Cardinality(EventsSince(LastDispatch.events, "Scraped", LastDispatch.entry[1]))
          + Cardinality(EventsSince(LastDispatch.events, "Error scraping",
                                    LastDispatch.entry[1])) = 1

\* C18: Frontier life cycle.  Every entry queued within the configured
\* depth is eventually dispatched, none is dropped from the queue without
\* being dispatched, and every dispatch ends in exactly one of Completed
\* and Failed.
C18_LifeCycle ==
    /\ C18_NoDrop
    /\ []C18_OneOutcome
    /\ (queue # <<>>) ~> (queue = <<>>)

\* the entries put in the queue so far, in the order they were put: the
\* seeds in input order (line 450), then the links (line 486)
Enqueued ==
    [i \in 1..Len(cfg.urls) |-> <<normalize_url(cfg.urls[i]), 0>>] \o enq_log

\* C19: FIFO/BFS order.  The entries leave the queue in the order they were
\* put in, seeds first; the entry dispatched is the one just dequeued; the
\* depths of the dispatched entries never decrease; and an entry of depth
\* k+1 is dispatched only when a finished link discovery of an entry of
\* depth k has found its URL.
C19_FifoOrder ==
    pc \notin {"idle", "returned", "start"} =>
        /\ Frontier = Enqueued
        /\ pc = "apply" => LastDispatch.entry = popped[Len(popped)]
        /\ \A i, j \in 1..Len(dispatched) :
              i <= j => dispatched[i].entry[2] <= dispatched[j].entry[2]
        /\ \A i \in 1..Len(dispatched) :
              dispatched[i].entry[2] > 0 =>
                 \E n \in 1..Len(disc_log) :
                    /\ disc_log[n].fetched
                    /\ disc_log[n].entry[2] + 1 = dispatched[i].entry[2]
                    /\ \E k \in 1..Len(disc_log[n].links) :
                          /\ disc_log[n].links[k] # None
                          /\ urljoin(disc_log[n].entry[1], disc_log[n].links[k])
                                = dispatched[i].entry[1]

\* the seed a was dispatched, then its links b and a/x in the order of the page
C19_Witness ==
    /\ Len(dispatched) = 3
    /\ dispatched[1].entry = <<UrlA, 0>>
    /\ dispatched[2].entry = <<UrlB, 1>>
    /\ dispatched[3].entry = <<UrlA \o <<"/x">>, 1>>

\* the link-discovery request of an entry at the configured depth is under way
DiscoveredAtDepth ==
    /\ pc = "linkfetch"
    /\ cur[2] = cfg.depth

\* C20: Enqueue depth bound with a next-page selector.  No entry is ever in
\* the queue, or was ever appended to it, with a depth above the configured
\* depth; and the link discovery of an entry at the configured depth, which
\* runs when a next-page selector is set, leaves the queue, the visited set
\* and total_urls as they are.
C20_EnqueueBound ==
    /\ [](/\ \A i \in 1..Len(queue) : queue[i][2] <= cfg.depth
          /\ \A i \in 1..Len(enq_log) : enq_log[i][2] <= cfg.depth)
    /\ [][(DiscoveredAtDepth /\ pc' # "linkfetch")
          => UNCHANGED <<queue, all_urls, total_urls, enq_log>>]_vars

\* with a next-page selector set, the links of page a, an entry at the
\* configured depth, were fetched and parsed, and nothing was enqueued
C20_Witness ==
    /\ builder
    /\ cfg.next_page_selector # ""
    /\ disc_log # <<>>
    /\ disc_log[Len(disc_log)].fetched
    /\ disc_log[Len(disc_log)].entry = <<UrlA, cfg.depth>>
    /\ disc_log[Len(disc_log)].links # <<>>
    /\ pc = "loop"
    /\ enq_log = <<>>


\* C21: Retry stops at first success.  When attempt j of a scrape_url call
\* is the first one whose fetch and extraction succeed, 1 <= j <=
\* retry_attempts+1, the call has issued exactly j fetch requests, has slept
\* the backoff interval of 1 exactly j-1 times, returns a record for its
\* URL, and has put one "Scraped" message and no "Error scraping" message
\* for that URL; while it runs it has slept once for each failed attempt.
C21_FirstSuccess ==
    /\ (task.st = "returned" /\ task.ret # None) =>
          LET j == task.attempts + 1
          IN /\ j >= 1
             /\ j <= cfg.retry_attempts + 1
             /\ Cardinality(FetchesSince(LastDispatch.fetches, "extract", task.url)) = j
             /\ task.sleeps = [i \in 1..(j - 1) |-> 1]
             /\ task.ret[1].url = task.url
             /\ Cardinality(EventsSince(LastDispatch.events, "Scraped", task.url)) = 1
             /\ EventsSince(LastDispatch.events, "Error scraping", task.url) = {}
    /\ task.st \in {"run", "fetching"} =>
          /\ task.sleeps = [i \in 1..task.attempts |-> 1]
          /\ EventsSince(LastDispatch.events, "Scraped", task.url) = {}

\* with retry_attempts = 2 the third attempt, the last one allowed, was the
\* first to succeed
C21_Witness ==
    /\ task.st = "returned"
    /\ task.ret # None
    /\ cfg.retry_attempts = 2
    /\ task.attempts = 2
    /\ Len(task.sleeps) = 2


C23_NoZeroDivision ==
    /\ (pc = "apply" /\ PoolApplyReturned(task)) => total_urls >= 1
    /\ pc # "dead"

====
